---------------------------- MODULE Spec2Model ----------------------------
(***************************************************************************)
(* A model of the two packages of the repository:                          *)
(*   phax/core.py   - modelgenerator, circuit, _validate_circuit_parameters,*)
(*                    _combine_models, _interconnect_model                  *)
(*   sax/circuit.py - create_dag, _validate_dag, _validate_models,          *)
(*                    _flat_circuit, _forward_global_settings, circuit      *)
(*                                                                         *)
(* Representation.                                                          *)
(*   A port name is the sequence of its ":"-separated segments, so that     *)
(*   f"{name}:{p}" is <<name>> \o p and port.split(":") is the sequence     *)
(*   itself: "left:p2" is <<"left","p2">>, "in1" is <<"in1">>.              *)
(*   A phax model dictionary is a record [dp, S]: dp is the default_params  *)
(*   entry (a set of parameter paths) and S maps the port-pair keys         *)
(*   <<p1,p2>> to a value; the value "zero" is the zero sentinel, any other *)
(*   value is a callable.                                                   *)
(*   Python's None is the string "None".                                    *)
(***************************************************************************)
EXTENDS Integers, Sequences, FiniteSets, TLC

VARIABLES
    pc,            \* position of the running call
    args,          \* the arguments the call was made with
    result,        \* what the call returned or raised
    models,        \* phax circuit: the models dictionary (the caller's object)
    connections,   \* phax circuit: the connections dictionary, in insertion order
    modelnames,    \* phax circuit: the list of groups of instance names
    pairIdx,       \* phax circuit: index of the next pair of the for loop at line 104
    model,         \* phax circuit: the local variable `model`
    eliminated,    \* phax circuit: the calls made to _interconnect_model, in order
    m,             \* modelgenerator: the dictionary under construction
    loopI,         \* modelgenerator: inner loop index i
    loopJ,         \* modelgenerator: outer loop index j
    calls,         \* modelgenerator: the calls made to the generator, in order
    instance_models,  \* sax circuit: the models of the inline callables
    recnet,           \* sax circuit: the recursive netlist after extraction
    dependency_dag,   \* sax circuit: the dependency graph
    model_names,      \* sax circuit: the order in which the names are visited
    nameIdx,          \* sax circuit: index of the next name of the loop at line 179
    new_models,       \* sax circuit: the dictionary new_models
    current_models,   \* sax circuit: the dictionary current_models
    circuit,          \* sax circuit: the local variable `circuit`
    flattened,        \* sax circuit: the calls made to _flat_circuit, in order
    inst2model,       \* _flat_circuit: instance name -> model (line 127)
    default_settings, \* _flat_circuit: the default settings of the callable (line 134)
    kwargs,           \* _circuit: the keyword settings of the call
    settings          \* _circuit: the local variable `settings`

vars == <<pc, args, result, models, connections, modelnames, pairIdx, model,
          eliminated, m, loopI, loopJ, calls, instance_models, recnet,
          dependency_dag, model_names, nameIdx, new_models, current_models,
          circuit, flattened, inst2model, default_settings, kwargs, settings>>

phaxVars == <<models, connections, modelnames, pairIdx, model, eliminated>>
genVars == <<m, loopI, loopJ, calls>>
saxVars == <<instance_models, recnet, dependency_dag, model_names, nameIdx,
             new_models, current_models, circuit, flattened>>
setVars == <<inst2model, default_settings, kwargs, settings>>

None == "None"
zero == "zero"

\* the variables of the calls a specification does not make
PhaxIdle ==
    /\ connections = <<>> /\ modelnames = <<>> /\ pairIdx = 0
    /\ model = None /\ eliminated = <<>>
GenIdle == m = <<>> /\ loopI = 0 /\ loopJ = 0 /\ calls = <<>>
SaxIdle ==
    /\ instance_models = <<>> /\ recnet = <<>> /\ dependency_dag = None
    /\ model_names = <<>> /\ nameIdx = 0 /\ new_models = <<>>
    /\ current_models = <<>> /\ circuit = [src |-> None] /\ flattened = <<>>
SetIdle ==
    /\ inst2model = <<>> /\ default_settings = <<>>
    /\ kwargs = <<>> /\ settings = <<>>

(***************************************************************************)
(* Generic helpers on sets and sequences.                                   *)
(***************************************************************************)
Range(s) == {s[i] : i \in DOMAIN s}

SubsetsUpTo(S, n) == {T \in SUBSET S : Cardinality(T) <= n}

\* the sequences without repetition over S of length at most n
RECURSIVE SeqsNoRep(_, _)
SeqsNoRep(S, n) ==
    IF n = 0 THEN {<<>>}
    ELSE LET shorter == SeqsNoRep(S, n - 1)
         IN shorter \cup
            UNION {{Append(s, x) : x \in S \ Range(s)} :
                      s \in {t \in shorter : Len(t) = n - 1}}

Reverse(s) == [i \in 1..Len(s) |-> s[Len(s) + 1 - i]]

(***************************************************************************)
(* phax/utils.py (imported by core.py at line 6, not part of src/):         *)
(* get_ports and rename_ports.                                              *)
(***************************************************************************)
\* the distinct port names occurring in the port-pair keys of a model
get_ports(mdl) == {key[1] : key \in DOMAIN mdl.S} \cup {key[2] : key \in DOMAIN mdl.S}

\* a new model with every port substituted through mapping (a function over
\* port names); a port the mapping lacks is an error
rename_ports(mdl, mapping) ==
    IF get_ports(mdl) \subseteq DOMAIN mapping
    THEN LET newKeys == {<<mapping[key[1]], mapping[key[2]]>> : key \in DOMAIN mdl.S}
             pre(nk) == CHOOSE key \in DOMAIN mdl.S :
                            <<mapping[key[1]], mapping[key[2]]>> = nk
         IN [ok |-> TRUE, model |-> [dp |-> mdl.dp, S |-> [nk \in newKeys |-> mdl.S[pre(nk)]]]]
    ELSE [ok |-> FALSE, model |-> mdl]

(***************************************************************************)
(* phax/core.py: _combine_models (lines 240-266)                            *)
(***************************************************************************)
\* the entries one of the two models contributes
CombinedValue(value, name) ==
    IF value = zero \/ name = None THEN value ELSE "named"

CombinedParams(mdl, name) ==
    IF DOMAIN mdl.S = {} THEN {}
    ELSE IF name = None THEN mdl.dp
    ELSE {<<name>> \o path : path \in mdl.dp}

_combine_models(model1, model2, name1, name2) ==
    [dp |-> CombinedParams(model1, name1) \cup CombinedParams(model2, name2),
     S  |-> [key \in DOMAIN model1.S \cup DOMAIN model2.S |->
                IF key \in DOMAIN model2.S
                THEN CombinedValue(model2.S[key], name2)
                ELSE CombinedValue(model1.S[key], name1)]]

(***************************************************************************)
(* phax/core.py: _interconnect_model (lines 269-319)                        *)
(***************************************************************************)
\* model.get((i, j), zero)
Get(mdl, i, j) == IF <<i, j>> \in DOMAIN mdl.S THEN mdl.S[<<i, j>>] ELSE zero

\* the condition of lines 301-307 under which no entry is installed at (i, j)
StructurallyZero(mdl, i, j, k, l) ==
    LET mij == Get(mdl, i, j)
        mik == Get(mdl, i, k)
        mil == Get(mdl, i, l)
        mkj == Get(mdl, k, j)
        mkk == Get(mdl, k, k)
        mlj == Get(mdl, l, j)
        mll == Get(mdl, l, l)
    IN /\ mij = zero
       /\ (mkj = zero \/ mil = zero)
       /\ (mlj = zero \/ mik = zero)
       /\ (mkj = zero \/ mll = zero \/ mik = zero)
       /\ (mlj = zero \/ mkk = zero \/ mil = zero)

\* the keys installed by the double loop of lines 290-311
InstalledKeys(mdl, k, l) ==
    {key \in get_ports(mdl) \X get_ports(mdl) :
        ~StructurallyZero(mdl, key[1], key[2], k, l)}

\* the keys that survive the deletion loop of lines 312-318
SurvivingKeys(keys, k, l) ==
    {key \in keys : ~(key[1] = k \/ key[1] = l \/ key[2] = k \/ key[2] = l)}

_interconnect_model(mdl, k, l) ==
    [dp |-> mdl.dp,
     S  |-> [key \in SurvivingKeys(InstalledKeys(mdl, k, l), k, l) |-> "ijkl"]]

(***************************************************************************)
(* Specification SpecInterconnect: one call _interconnect_model(model,k,l)  *)
(* on a model over the ports of PortUniverse with at most MaxKeys keys.     *)
(***************************************************************************)
MaxKeys == 3

PortUniverse == {<<"a">>, <<"b">>, <<"k">>, <<"l">>}

\* the model dictionaries with between one and MaxKeys port-pair keys, each
\* mapped to a callable ("fn") or to the zero sentinel
InterconnectInputs ==
    {[dp |-> {<<"wl">>}, S |-> s] :
        s \in UNION {[K -> {"fn", zero}] :
                        K \in SubsetsUpTo(PortUniverse \X PortUniverse, MaxKeys) \ {{}}}}

InitInterconnect ==
    /\ pc = "interconnect"
    /\ \E mdl \in InterconnectInputs :
         \E k \in get_ports(mdl), l \in get_ports(mdl) :
            /\ k # l
            /\ args = [model |-> mdl, k |-> k, l |-> l]
    /\ result = None
    /\ models = <<>> /\ PhaxIdle /\ GenIdle /\ SaxIdle /\ SetIdle

Interconnect ==
    /\ pc = "interconnect"
    /\ result' = _interconnect_model(args.model, args.k, args.l)
    /\ pc' = "done"
    /\ UNCHANGED <<args, phaxVars, genVars, setVars, saxVars>>

NextInterconnect == Interconnect

SpecInterconnect == InitInterconnect /\ [][NextInterconnect]_vars

\* C2: after _interconnect_model(model, k, l) no key of the result references
\* k or l, and the result has exactly two distinct ports fewer than the input.
C2_InterconnectEliminatesTwoPorts ==
    (pc = "done") =>
        /\ \A key \in DOMAIN result.S : key[1] \notin {args.k, args.l}
                                        /\ key[2] \notin {args.k, args.l}
        /\ Cardinality(get_ports(result)) = Cardinality(get_ports(args.model)) - 2

(***************************************************************************)
(* phax/core.py: modelgenerator (lines 9-53)                                *)
(*                                                                         *)
(* The generator is a function of the index pair; it returns a callable,    *)
(* here the function object <<"f", i, j>>, or None, here NoFunc.            *)
(***************************************************************************)
NoFunc == <<>>

\* d[k] = v on a dictionary d
Put(d, k, v) == [x \in DOMAIN d \cup {k} |-> IF x = k THEN v ELSE d[x]]

\* lines 45-46 and 49-50: install func at key unless it is None
Install(d, key, func) == IF func # NoFunc THEN Put(d, key, func) ELSE d

\* lines 47-48: the function installed at (ports[j], ports[i])
SecondFunc_AlwaysCallsReverse(gen, i, j, reciprocal, func) == gen[<<j, i>>]

SecondFunc(gen, i, j, reciprocal, func) ==
    IF ~reciprocal THEN gen[<<j, i>>] ELSE func

\* the calls of the generator one iteration of the inner loop makes
IterationCalls(i, j, reciprocal) ==
    IF ~reciprocal THEN <<<<i, j>>, <<j, i>>>> ELSE <<<<i, j>>>>

\* line 41; the default_params argument is [given |-> FALSE] for None
InitialDict(default_params) ==
    [dp |-> IF ~default_params.given THEN {} ELSE default_params.value, S |-> <<>>]

MaxPorts == 3

PortNames == <<<<"p0">>, <<"p1">>, <<"p2">>, <<"p3">>, <<"p4">>>>

\* the generators over n ports: every choice of the index pairs for which the
\* generator returns a callable
Generators(n) ==
    LET Idx == (0..n-1) \X (0..n-1)
    IN {[ij \in Idx |-> IF ij \in D THEN <<"f", ij[1], ij[2]>> ELSE NoFunc] :
           D \in SUBSET Idx}

InitGen ==
    /\ pc = "gen_loop"
    /\ \E n \in 0..MaxPorts :
         \E gen \in Generators(n), reciprocal \in BOOLEAN :
            args = [ports |-> SubSeq(PortNames, 1, n), gen |-> gen,
                    reciprocal |-> reciprocal,
                    default_params |-> [given |-> TRUE, value |-> {<<"wl">>}]]
    /\ m = InitialDict(args.default_params)
    /\ loopI = 0 /\ loopJ = 0 /\ calls = <<>>
    /\ result = None
    /\ models = <<>> /\ PhaxIdle /\ SaxIdle /\ SetIdle

\* one iteration of the inner loop, lines 43-50 (ports is 0-indexed in the code)
GenIteration ==
    /\ pc = "gen_loop"
    /\ loopJ < Len(args.ports)
    /\ LET i == loopI
           j == loopJ
           pi == args.ports[i + 1]
           pj == args.ports[j + 1]
           func == args.gen[<<i, j>>]
           m1 == Install(m.S, <<pi, pj>>, func)
           func2 == SecondFunc(args.gen, i, j, args.reciprocal, func)
       IN /\ m' = [m EXCEPT !.S = Install(m1, <<pj, pi>>, func2)]
          /\ calls' = calls \o IterationCalls(i, j, args.reciprocal)
          /\ IF i < j
             THEN loopI' = i + 1 /\ loopJ' = j
             ELSE loopI' = 0 /\ loopJ' = j + 1
    /\ UNCHANGED <<pc, args, result, phaxVars, saxVars, setVars>>

\* line 51
GenReturn ==
    /\ pc = "gen_loop"
    /\ loopJ = Len(args.ports)
    /\ result' = m
    /\ pc' = "done"
    /\ UNCHANGED <<args, phaxVars, genVars, setVars, saxVars>>

NextGen == GenIteration \/ GenReturn

SpecGen == InitGen /\ [][NextGen]_vars

\* C10: reciprocal: the generator is called exactly once per (i, j) with
\* i <= j, both (port_i, port_j) and (port_j, port_i) map to the function it
\* returned, and neither key exists when it returned None; not reciprocal:
\* (port_a, port_b) is a key iff generator(a, b) is not None, and then maps to
\* generator(a, b).
C10_GeneratorKeys ==
    (pc = "done") =>
        LET n == Len(args.ports)
            P(a) == args.ports[a + 1]
            Upper == {ij \in (0..n-1) \X (0..n-1) : ij[1] <= ij[2]}
        IN IF args.reciprocal
           THEN /\ Len(calls) = Cardinality(Upper)
                /\ Range(calls) = Upper
                /\ \A ij \in Upper :
                     LET f == args.gen[ij]
                         fwd == <<P(ij[1]), P(ij[2])>>
                         bwd == <<P(ij[2]), P(ij[1])>>
                     IN IF f # NoFunc
                        THEN /\ fwd \in DOMAIN result.S /\ result.S[fwd] = f
                             /\ bwd \in DOMAIN result.S /\ result.S[bwd] = f
                        ELSE fwd \notin DOMAIN result.S /\ bwd \notin DOMAIN result.S
           ELSE \A a, b \in 0..n-1 :
                     /\ (<<P(a), P(b)>> \in DOMAIN result.S) <=> (args.gen[<<a, b>>] # NoFunc)
                     /\ (<<P(a), P(b)>> \in DOMAIN result.S)
                            => result.S[<<P(a), P(b)>>] = args.gen[<<a, b>>]

\* a reciprocal model whose generator returned a callable for an off-diagonal
\* pair and None for another pair has been returned
C10_Witness ==
    /\ pc = "done"
    /\ args.reciprocal
    /\ Len(args.ports) >= 2
    /\ args.gen[<<0, 1>>] # NoFunc
    /\ args.gen[<<1, 0>>] = NoFunc
    /\ <<args.ports[2], args.ports[1]>> \in DOMAIN result.S

(***************************************************************************)
(* phax/core.py: _validate_model_dict (lines 216-225) and                   *)
(* _validate_circuit_parameters (lines 129-213)                             *)
(*                                                                         *)
(* connections is a sequence of <<port1, port2>> items in the order of the  *)
(* dictionary (or of the list of tuples, when isDict is FALSE); ports is a  *)
(* sequence of <<port, output_port>> items in the order of the dictionary.  *)
(* Every failure of the function is a failed assert.                        *)
(***************************************************************************)
callable(value) == value # "notcallable"

_validate_model_dict(mdl) ==
    /\ get_ports(mdl) # {}
    /\ \A key \in DOMAIN mdl.S : callable(mdl.S[key])

\* lines 145-149
DeclaredPorts(names, mdl) ==
    UNION {{<<names[i]>> \o port : port \in get_ports(mdl[names[i]])} : i \in DOMAIN names}

\* lines 170-179 and 192-205: the format 'modelname:port', a known model, a
\* port of that model
PortRefOk_SkipsPortLookup(port, names, mdl) ==
    /\ Len(port) = 2
    /\ port[1] \in Range(names)

PortRefOk(port, names, mdl) ==
    /\ Len(port) = 2
    /\ port[1] \in Range(names)
    /\ <<port[2]>> \in get_ports(mdl[port[1]])

\* the ports of the connection items, in the order the loops visit them
RECURSIVE Endpoints(_)
Endpoints(items) ==
    IF items = <<>> THEN <<>>
    ELSE <<Head(items)[1], Head(items)[2]>> \o Endpoints(Tail(items))

\* lines 156-161 (list form) and 164-182: each port in turn is checked and
\* added to connection_ports; returns whether every assert passed
RECURSIVE WalkConnectionPorts(_, _, _, _)
WalkConnectionPorts(ports, names, mdl, connection_ports) ==
    IF ports = <<>> THEN [ok |-> TRUE, connection_ports |-> connection_ports]
    ELSE LET port == Head(ports)
         IN IF PortRefOk(port, names, mdl) /\ port \notin connection_ports
            THEN WalkConnectionPorts(Tail(ports), names, mdl, connection_ports \cup {port})
            ELSE [ok |-> FALSE, connection_ports |-> connection_ports]

\* lines 184-209
RECURSIVE WalkOutputPorts(_, _, _, _, _)
WalkOutputPorts(items, names, mdl, connection_ports, output_ports) ==
    IF items = <<>> THEN TRUE
    ELSE LET port == Head(items)[1]
             output_port == Head(items)[2]
         IN /\ Len(port) = 2
            /\ Len(output_port) = 1
            /\ port \notin connection_ports
            /\ PortRefOk(port, names, mdl)
            /\ output_port \notin output_ports
            /\ WalkOutputPorts(Tail(items), names, mdl, connection_ports \cup {port},
                               output_ports \cup {output_port})

\* lines 167, 187 and 211: the declared ports no connection and no ports key names
UnusedPorts(names, mdl, conns, ports) ==
    DeclaredPorts(names, mdl)
        \ (Range(Endpoints(conns)) \cup {ports[i][1] : i \in DOMAIN ports})

\* lines 151-161: a list of tuples may not repeat a port
ListFormOk(conns, isDict) ==
    isDict \/ \A i, j \in DOMAIN Endpoints(conns) :
                  i # j => Endpoints(conns)[i] # Endpoints(conns)[j]

_validate_circuit_parameters(names, mdl, conns, isDict, ports) ==
    LET walked == WalkConnectionPorts(Endpoints(conns), names, mdl, {})
    IN /\ \A i \in DOMAIN names : _validate_model_dict(mdl[names[i]])
       /\ ListFormOk(conns, isDict)
       /\ walked.ok
       /\ WalkOutputPorts(ports, names, mdl, walked.connection_ports, {})
       /\ UnusedPorts(names, mdl, conns, ports) = {}

(***************************************************************************)
(* The component models the specifications draw from.                       *)
(***************************************************************************)
P == <<"p">>
Q == <<"q">>

Reflector == [dp |-> {<<"wl">>}, S |-> (<<P, P>> :> "fn")]
Waveguide == [dp |-> {<<"wl">>}, S |-> (<<P, Q>> :> "fn" @@ <<Q, P>> :> "fn")]
Isolator  == [dp |-> {<<"wl">>}, S |-> (<<P, Q>> :> "fn")]
NoPorts   == [dp |-> {<<"wl">>}, S |-> <<>>]

(***************************************************************************)
(* Specification SpecValidate: one call of _validate_circuit_parameters on  *)
(* arbitrary connections and ports over RefUniverse, which holds declared   *)
(* ports, a port of an unknown model, an undeclared port and a name that is *)
(* not of the form 'modelname:port'; the netlists mention at most MaxRefs   *)
(* port names.                                                              *)
(***************************************************************************)
\* the number of port names a netlist mentions: two per connection, one per
\* entry of ports
MaxRefs == 4

RefUniverse == {<<"a", "p">>, <<"a", "q">>, <<"b", "p">>, <<"z", "p">>, <<"a", "r">>, <<"ap">>}
OutputUniverse == {<<"x">>, <<"x", "y">>}

ValidateModels ==
    {[names |-> <<"a", "b">>, mdl |-> [n \in {"a", "b"} |-> IF n = "a" THEN Waveguide ELSE Reflector]],
     [names |-> <<"a">>, mdl |-> [n \in {"a"} |-> Waveguide]],
     [names |-> <<"a", "b">>, mdl |-> [n \in {"a", "b"} |-> IF n = "a" THEN Waveguide ELSE NoPorts]]}

SeqsUpTo(S, n) == UNION {[1..k -> S] : k \in 0..n}

UniqueKeys(items) == \A i, j \in DOMAIN items : i # j => items[i][1] # items[j][1]

InitValidate ==
    /\ pc = "validate_only"
    /\ \E md \in ValidateModels, isDict \in BOOLEAN :
         \E conns \in SeqsUpTo(RefUniverse \X RefUniverse, MaxRefs \div 2) :
         \E ports \in SeqsUpTo(RefUniverse \X OutputUniverse, MaxRefs - 2 * Len(conns)) :
            /\ isDict => UniqueKeys(conns)
            /\ UniqueKeys(ports)
            /\ args = [names |-> md.names, mdl |-> md.mdl, conns |-> conns,
                       isDict |-> isDict, ports |-> ports]
    /\ result = None
    /\ models = <<>> /\ PhaxIdle /\ GenIdle /\ SaxIdle /\ SetIdle

Validate ==
    /\ pc = "validate_only"
    /\ result' = [status |->
                    IF _validate_circuit_parameters(args.names, args.mdl, args.conns,
                                                    args.isDict, args.ports)
                    THEN "ok" ELSE "AssertionError"]
    /\ pc' = "done"
    /\ UNCHANGED <<args, phaxVars, genVars, setVars, saxVars>>

NextValidate == Validate

SpecValidate == InitValidate /\ [][NextValidate]_vars

\* how often a port name occurs among the connection keys, the connection
\* values and the keys of ports
Occurrences(port) ==
    Cardinality({i \in DOMAIN Endpoints(args.conns) : Endpoints(args.conns)[i] = port})
        + Cardinality({i \in DOMAIN args.ports : args.ports[i][1] = port})

UsedNames == Range(Endpoints(args.conns)) \cup {args.ports[i][1] : i \in DOMAIN args.ports}

\* C3: _validate_circuit_parameters returns only if every declared port occurs
\* exactly once among connection keys, connection values and ports keys and
\* every name occurring there is a declared port of a known model; an unused
\* port, a port used twice, a reference to an unknown model or to an undeclared
\* port makes it fail with an assertion error.
C3_ValidationExact ==
    (pc = "done") =>
        LET declared == DeclaredPorts(args.names, args.mdl)
            exact == /\ \A port \in declared : Occurrences(port) = 1
                     /\ UsedNames \subseteq declared
        IN /\ (result.status = "ok") => exact
           /\ (~exact) => (result.status = "AssertionError")

\* a netlist with a connection and an exposed port was accepted
C3_Witness ==
    /\ pc = "done"
    /\ result.status = "ok"
    /\ Len(args.conns) >= 1
    /\ Len(args.ports) >= 1

(***************************************************************************)
(* phax/core.py: circuit (lines 56-126)                                     *)
(***************************************************************************)
\* line 100: the model of instance name with its ports prefixed by the name
Namespaced(mdl, name) ==
    rename_ports(mdl, [port \in get_ports(mdl) |-> <<name>> \o port]).model

\* modelnames[::2] (the 1st, 3rd, ... element in 1-based positions)
EveryOther(s) == [i \in 1..((Len(s) + 1) \div 2) |-> s[2 * i - 1]]

\* lines 115-120: the connections whose two instances are both in names1 are
\* deleted from the dictionary and interconnected, in dictionary order.
\* state is [model, connections, eliminated].
RECURSIVE ConnectWithin(_, _, _)
ConnectWithin(items, names1, state) ==
    IF items = <<>> THEN state
    ELSE LET port1 == Head(items)[1]
             port2 == Head(items)[2]
             n1 == port1[1]
             n2 == port2[1]
         IN IF n1 \in Range(names1) /\ n2 \in Range(names1)
            THEN ConnectWithin(Tail(items), names1,
                    [model |-> _interconnect_model(state.model, port1, port2),
                     connections |-> SelectSeq(state.connections,
                                               LAMBDA item : item[1] # port1),
                     eliminated |-> Append(state.eliminated, <<port1, port2>>)])
            ELSE ConnectWithin(Tail(items), names1, state)

\* the ports dictionary as a function from port name to output name
PortsMapping(ports) ==
    [port \in {ports[i][1] : i \in DOMAIN ports} |->
        ports[CHOOSE i \in DOMAIN ports : ports[i][1] = port][2]]

(***************************************************************************)
(* Specification SpecPhax: one call circuit(models, connections, ports) on  *)
(* up to MaxInst instances drawn from ModelMenu, wired by up to MaxConn     *)
(* connections between distinct ports (of the same or of different          *)
(* instances); the ports left over are all exposed, or all but one (a       *)
(* netlist that validation rejects).                                        *)
(***************************************************************************)
MaxInst == 3
MaxConn == 2

InstanceNames == <<"a", "b", "c", "d", "e">>
ModelMenu == {Reflector, Waveguide, Isolator}
OutputNames == <<<<"o1">>, <<"o2">>, <<"o3">>, <<"o4">>, <<"o5">>,
                 <<"o6">>, <<"o7">>, <<"o8">>, <<"o9">>, <<"o10">>>>

\* the declared ports 'name:port' in the order of the models dictionary
RECURSIVE RefList(_, _)
RefList(names, mdl) ==
    IF names = <<>> THEN <<>>
    ELSE LET name == Head(names)
             own == SelectSeq(<<P, Q>>, LAMBDA port : port \in get_ports(mdl[name]))
         IN [i \in DOMAIN own |-> <<name>> \o own[i]] \o RefList(Tail(names), mdl)

\* the connection dictionaries: no port is named twice
Wirings(refs) ==
    {conns \in SeqsNoRep({pair \in Range(refs) \X Range(refs) : pair[1] # pair[2]}, MaxConn) :
        \A i, j \in DOMAIN Endpoints(conns) :
            i # j => Endpoints(conns)[i] # Endpoints(conns)[j]}

\* the ports dictionary exposing the ports that conns leaves over, but for
\* the one at position drop (0: none is left out)
Exposed(refs, conns, drop) ==
    LET rest == SelectSeq(refs, LAMBDA ref : ref \notin Range(Endpoints(conns)))
        kept == [i \in 1..(Len(rest) - (IF drop = 0 THEN 0 ELSE 1)) |->
                    IF drop # 0 /\ i >= drop THEN rest[i + 1] ELSE rest[i]]
    IN [i \in DOMAIN kept |-> <<kept[i], OutputNames[i]>>]

InitPhax ==
    /\ pc = "validate"
    /\ \E n \in 1..MaxInst :
         \E mdl \in [Range(SubSeq(InstanceNames, 1, n)) -> ModelMenu] :
            LET names == SubSeq(InstanceNames, 1, n)
                refs == RefList(names, mdl)
            IN \E conns \in Wirings(refs) :
                 \E drop \in 0..(Len(refs) - 2 * Len(conns)) :
                    args = [names |-> names, mdl |-> mdl, conns |-> conns,
                            isDict |-> TRUE, ports |-> Exposed(refs, conns, drop)]
    /\ models = args.mdl
    /\ connections = args.conns
    /\ modelnames = <<>> /\ pairIdx = 0
    /\ model = None /\ eliminated = <<>>
    /\ result = None
    /\ GenIdle /\ SaxIdle /\ SetIdle

\* lines 95-97
CircuitValidate ==
    /\ pc = "validate"
    /\ IF _validate_circuit_parameters(args.names, models, connections, args.isDict, args.ports)
       THEN pc' = "namespace" /\ UNCHANGED result
       ELSE pc' = "done" /\ result' = [status |-> "AssertionError"]
    /\ UNCHANGED <<args, phaxVars, genVars, setVars, saxVars>>

\* lines 99-101; after the loop of line 99 its variable `model` is still bound
\* to the last value of the dictionary as it was before line 100 replaced it
CircuitNamespace ==
    /\ pc = "namespace"
    /\ models' = [name \in DOMAIN models |-> Namespaced(models[name], name)]
    /\ model' = models[args.names[Len(args.names)]]
    /\ modelnames' = [i \in DOMAIN args.names |-> <<args.names[i]>>]
    /\ pairIdx' = 1
    /\ pc' = IF Len(args.names) > 1 THEN "for" ELSE "rename"
    /\ UNCHANGED <<args, result, connections, eliminated, genVars, setVars, saxVars>>

\* lines 105-121: one iteration of the for loop over
\* zip(modelnames[::2], modelnames[1::2])
CircuitMergePair ==
    /\ pc = "for"
    /\ pairIdx <= Len(modelnames) \div 2
    /\ LET names1 == modelnames[2 * pairIdx - 1]
           names2 == modelnames[2 * pairIdx]
           model1 == models[names1[1]]
           model2 == models[names2[1]]
           combined == _combine_models(model1, model2,
                                       IF Len(names1) > 1 THEN None ELSE names1[1],
                                       IF Len(names2) > 1 THEN None ELSE names2[1])
           extended == names1 \o names2
           after == ConnectWithin(connections, extended,
                                  [model |-> combined, connections |-> connections,
                                   eliminated |-> eliminated])
       IN /\ modelnames' = [modelnames EXCEPT ![2 * pairIdx - 1] = extended]
          /\ model' = after.model
          /\ connections' = after.connections
          /\ eliminated' = after.eliminated
          /\ models' = [name \in (DOMAIN models \ {names2[1]}) |->
                            IF name = names1[1] THEN after.model ELSE models[name]]
    /\ pairIdx' = pairIdx + 1
    /\ UNCHANGED <<pc, args, result, genVars, setVars, saxVars>>

\* line 122 and the test of line 103
CircuitEndRound ==
    /\ pc = "for"
    /\ pairIdx > Len(modelnames) \div 2
    /\ modelnames' = Reverse(EveryOther(modelnames))
    /\ pairIdx' = 1
    /\ pc' = IF Len(modelnames') > 1 THEN "for" ELSE "rename"
    /\ UNCHANGED <<args, result, models, connections, model, eliminated, genVars, setVars, saxVars>>

\* lines 124-126
CircuitReturn ==
    /\ pc = "rename"
    /\ LET renamed == rename_ports(model, PortsMapping(args.ports))
       IN result' = IF renamed.ok
                    THEN [status |-> "ok", model |-> renamed.model]
                    ELSE [status |-> "KeyError"]
    /\ pc' = "done"
    /\ UNCHANGED <<args, phaxVars, genVars, setVars, saxVars>>

NextPhax ==
    \/ CircuitValidate
    \/ CircuitNamespace
    \/ CircuitMergePair
    \/ CircuitEndRound
    \/ CircuitReturn

SpecPhax == InitPhax /\ [][NextPhax]_vars

\* the call got past _validate_circuit_parameters
Accepted == pc \in {"namespace", "for", "rename"} \/ (pc = "done" /\ result.status # "AssertionError")

\* C1: for every input validation accepts, circuit returns a model whose set
\* of port names is exactly the set of values of ports.
C1_PortsAreExactlyTheExposedNames ==
    (pc = "done" /\ Accepted) =>
        /\ result.status = "ok"
        /\ get_ports(result.model) = {args.ports[i][2] : i \in DOMAIN args.ports}

(***************************************************************************)
(* sax/circuit.py                                                           *)
(*                                                                         *)
(* A recursive netlist is the sequence, in the order of the mapping, of its *)
(* entries [name, instances]; an instance is [component, inline]: inline is *)
(* TRUE when the netlist holds a callable whose __name__ is component, and   *)
(* FALSE when it holds the component name.  A graph is [nodes, edges].      *)
(* A model callable is a record: [src |-> "given"] for an entry of the      *)
(* caller's models, "inline" for an inline callable, "flat" for a callable  *)
(* made by _flat_circuit (with the instance models it closes over); wrap    *)
(* tells whether singlemode or multimode was applied to it.                 *)
(***************************************************************************)
GivenModel(name)  == [src |-> "given", name |-> name, wrap |-> "none"]
InlineModel(name) == [src |-> "inline", name |-> name, wrap |-> "none"]

\* d.update(e) and {**d, **e} on dictionaries as functions
Update(d, e) == [k \in DOMAIN d \cup DOMAIN e |-> IF k \in DOMAIN e THEN e[k] ELSE d[k]]

\* lines 211-237: the netlist with every callable replaced by its name, and
\* the callables by name
ExtractedNetlist(netlist) ==
    [i \in DOMAIN netlist |->
        [name |-> netlist[i].name,
         components |-> {inst.component : inst \in netlist[i].instances}]]

ExtractedModels(netlist) ==
    LET inline == {inst.component : inst \in
                      {x \in UNION {netlist[i].instances : i \in DOMAIN netlist} : x.inline}}
    IN [name \in inline |-> InlineModel(name)]

\* recnet.__root__[name]
Entry(net, name) == net[CHOOSE i \in DOMAIN net : net[i].name = name]

Keys(net) == {net[i].name : i \in DOMAIN net}

\* networkx: the nodes reachable from the nodes of frontier along edges
RECURSIVE Reachable(_, _)
Reachable(edges, frontier) ==
    LET next == frontier \cup {e[2] : e \in {x \in edges : x[1] \in frontier}}
    IN IF next = frontier THEN frontier ELSE Reachable(edges, next)

\* nx.descendants(g, node): reachable from node, node itself excluded
Descendants(g, node) ==
    Reachable(g.edges, {e[2] : e \in {x \in g.edges : x[1] = node}}) \ {node}

\* nx.induced_subgraph(g, nodes)
InducedSubgraph(g, nodes) ==
    [nodes |-> g.nodes \cap nodes,
     edges |-> {e \in g.edges : e[1] \in nodes /\ e[2] \in nodes}]

\* lines 39-53: the graph before it is restricted; given is the set of
\* names the caller's models holds
FullGraph(net, given) ==
    LET expanded == {i \in DOMAIN net : net[i].name \notin given}
        edges == UNION {{<<net[i].name, c>> : c \in net[i].components} : i \in expanded}
    IN [nodes |-> Keys(net) \cup {e[2] : e \in edges}, edges |-> edges]

\* line 56: the parent node is the first key of the mapping
ParentNode(net) == net[1].name

\* lines 31-60
create_dag(net, given) ==
    LET g == FullGraph(net, given)
        parent_node == ParentNode(net)
    IN InducedSubgraph(g, {parent_node} \cup Descendants(g, parent_node))

\* lines 98-105
find_root(g) == {n \in g.nodes : ~\E e \in g.edges : e[2] = n}
find_leaves(g) == {n \in g.nodes : ~\E e \in g.edges : e[1] = n}

\* DiGraph.is_directed() of networkx: true of every DiGraph
is_directed(g) == TRUE

\* lines 275-283: "ok" or the error raised
_validate_dag(g) ==
    IF Cardinality(find_root(g)) > 1 THEN "ValueError: multiple top_levels"
    ELSE IF Cardinality(find_root(g)) < 1 THEN "ValueError: no nodes"
    ELSE IF ~is_directed(g) THEN "ValueError: dependency cycles"
    ELSE "ok"

\* line 110
MissingModels(mdls, g) == find_leaves(g) \ DOMAIN mdls

\* nx.topological_sort: the orders of the nodes in which every edge points
\* forward; none exists when the graph has a cycle (NetworkXUnfeasible)
TopologicalOrders(g) ==
    {order \in SeqsNoRep(g.nodes, Cardinality(g.nodes)) :
        /\ Len(order) = Cardinality(g.nodes)
        /\ \A e \in g.edges :
             \E i, j \in DOMAIN order : i < j /\ order[i] = e[1] /\ order[j] = e[2]}

\* line 178: [::-1]
VisitOrder_NotReversed(order) == order

VisitOrder(order) == Reverse(order)

\* lines 286-311: singlemode or multimode applied to every model of the dictionary
Wrapped(mdls, modes) ==
    [name \in DOMAIN mdls |->
        [mdls[name] EXCEPT !.wrap = IF Len(modes) = 1 THEN "single" ELSE "multi"]]

\* lines 124-148: the callable for flatnet, closing over inst2model (line 127)
_flat_circuit(name, components, mdls) ==
    [src |-> "flat", name |-> name, wrap |-> "none",
     uses |-> [c \in components |-> mdls[c]]]

(***************************************************************************)
(* Specification SpecSax: one call circuit(netlist, models, modes) of       *)
(* sax/circuit.py on a recursive netlist over CircuitNames, in any order of *)
(* its entries, each with at most MaxInstances distinct instances (by name  *)
(* or inline), the caller supplying models for any of GivenNames.  The      *)
(* backend is a registered one and the netlist satisfies the schema.        *)
(***************************************************************************)
MaxInstances == 1

CircuitNames == {"top", "mid", "sub"}
GivenNames == {"wg", "mid"}
Instances ==
    {[component |-> c, inline |-> FALSE] : c \in {"mid", "sub", "wg"}}
        \cup {[component |-> c, inline |-> TRUE] : c \in {"top", "wg"}}
ModeLists == {<<"te">>, <<"te", "tm">>}

Netlists ==
    UNION {{[i \in DOMAIN order |-> [name |-> order[i], instances |-> inst[order[i]]]] :
               inst \in [Range(order) -> SubsetsUpTo(Instances, MaxInstances)]} :
              order \in SeqsNoRep(CircuitNames, Cardinality(CircuitNames)) \ {<<>>}}

\* the local variable `circuit` before any assignment (line 175)
NoCircuit == [src |-> None]

InitSax ==
    /\ pc = "build"
    /\ \E netlist \in Netlists, given \in SUBSET GivenNames, modes \in ModeLists :
         args = [netlist |-> netlist, models |-> given, modes |-> modes]
    /\ models = [name \in args.models |-> GivenModel(name)]
    /\ result = None
    /\ PhaxIdle /\ GenIdle /\ SaxIdle /\ SetIdle

\* lines 168-170
SaxBuildDag ==
    /\ pc = "build"
    /\ instance_models' = ExtractedModels(args.netlist)
    /\ recnet' = ExtractedNetlist(args.netlist)
    /\ dependency_dag' = create_dag(recnet', DOMAIN models)
    /\ IF _validate_dag(dependency_dag') = "ok"
       THEN pc' = "validate_models" /\ UNCHANGED result
       ELSE pc' = "done" /\ result' = [status |-> _validate_dag(dependency_dag')]
    /\ UNCHANGED <<args, models, phaxVars, genVars, setVars, model_names, nameIdx,
                   new_models, current_models, circuit, flattened>>

\* lines 171-177
SaxValidateModels ==
    /\ pc = "validate_models"
    /\ LET merged == Update(models, instance_models)
       IN IF MissingModels(merged, dependency_dag) # {}
          THEN /\ result' = [status |-> "ValueError: missing models",
                             missing |-> MissingModels(merged, dependency_dag)]
               /\ pc' = "done"
               /\ UNCHANGED models
          ELSE /\ models' = merged
               /\ pc' = "sort"
               /\ UNCHANGED result
    /\ UNCHANGED <<args, connections, modelnames, pairIdx, model, eliminated,
                   genVars, setVars, saxVars>>

\* line 178
SaxSort ==
    /\ pc = "sort"
    /\ IF TopologicalOrders(dependency_dag) = {}
       THEN /\ result' = [status |-> "NetworkXUnfeasible"]
            /\ pc' = "done"
            /\ UNCHANGED <<model_names, nameIdx>>
       ELSE /\ \E order \in TopologicalOrders(dependency_dag) :
                 model_names' = VisitOrder(order)
            /\ nameIdx' = 1
            /\ pc' = "visit"
            /\ UNCHANGED result
    /\ UNCHANGED <<args, models, phaxVars, genVars, setVars, instance_models, recnet,
                   dependency_dag, new_models, current_models, circuit, flattened>>

\* lines 180-182: the name has a model
SaxKeepModel ==
    /\ pc = "visit"
    /\ nameIdx <= Len(model_names)
    /\ model_names[nameIdx] \in DOMAIN models
    /\ new_models' = Put(new_models, model_names[nameIdx], models[model_names[nameIdx]])
    /\ nameIdx' = nameIdx + 1
    /\ UNCHANGED <<pc, args, result, models, phaxVars, genVars, setVars, instance_models, recnet,
                   dependency_dag, model_names, current_models, circuit, flattened>>

\* lines 184-194: the name has none, its netlist is flattened; a missing
\* netlist (line 184) or instance model (line 127) is a KeyError
SaxFlatten ==
    /\ pc = "visit"
    /\ nameIdx <= Len(model_names)
    /\ model_names[nameIdx] \notin DOMAIN models
    /\ LET model_name == model_names[nameIdx]
           updated == Update(current_models, Wrapped(new_models, args.modes))
       IN IF /\ model_name \in Keys(recnet)
             /\ Entry(recnet, model_name).components \subseteq DOMAIN updated
          THEN LET made == _flat_circuit(model_name, Entry(recnet, model_name).components,
                                         updated)
               IN /\ circuit' = made
                  /\ current_models' = Put(updated, model_name, made)
                  /\ new_models' = <<>>
                  /\ flattened' = Append(flattened,
                                         [name |-> model_name, resolved |-> DOMAIN updated])
                  /\ nameIdx' = nameIdx + 1
                  /\ UNCHANGED <<pc, result>>
          ELSE /\ result' = [status |-> "KeyError"]
               /\ pc' = "done"
               /\ UNCHANGED <<circuit, current_models, new_models, flattened, nameIdx>>
    /\ UNCHANGED <<args, models, phaxVars, genVars, setVars, instance_models, recnet,
                   dependency_dag, model_names>>

\* lines 196-197
SaxReturn ==
    /\ pc = "visit"
    /\ nameIdx > Len(model_names)
    /\ result' = IF circuit = NoCircuit
                 THEN [status |-> "AssertionError"]
                 ELSE [status |-> "ok", circuit |-> circuit,
                       dag |-> dependency_dag, models |-> current_models]
    /\ pc' = "done"
    /\ UNCHANGED <<args, models, phaxVars, genVars, setVars, saxVars>>

NextSax ==
    \/ SaxBuildDag
    \/ SaxValidateModels
    \/ SaxSort
    \/ SaxKeepModel
    \/ SaxFlatten
    \/ SaxReturn

SpecSax == InitSax /\ [][NextSax]_vars

\* the components the instances of circuit name reference
ComponentsOf(name) == Entry(recnet, name).components

\* C4: when _flat_circuit makes the model of N every component of N has an
\* entry in current_models, and every circuit whose model is made and that N
\* instantiates had its model made before N's.
C4_ComponentsBeforeCircuits ==
    /\ (pc = "done") => (result.status # "KeyError")
    /\ \A i \in DOMAIN flattened :
         /\ ComponentsOf(flattened[i].name) \subseteq flattened[i].resolved
         /\ \A j \in DOMAIN flattened :
              flattened[j].name \in ComponentsOf(flattened[i].name) => j < i

\* a circuit was returned for which a sub-circuit had to be flattened first
C4_Witness ==
    /\ pc = "done"
    /\ result.status = "ok"
    /\ Len(flattened) >= 2
    /\ flattened[1].name \in ComponentsOf(flattened[2].name)

\* the graph has a directed cycle
HasCycle(g) ==
    \E n \in g.nodes : n \in Reachable(g.edges, {e[2] : e \in {x \in g.edges : x[1] = n}})

\* C5: _validate_dag returns only a graph that is acyclic and has exactly one
\* zero-in-degree node; a graph with a directed cycle raises.
C5_ValidateDagRejectsCycles ==
    (pc = "validate_models") =>
        /\ ~HasCycle(dependency_dag)
        /\ Cardinality(find_root(dependency_dag)) = 1

\* the circuit names of the netlist no other circuit instantiates
Unreferenced(net) ==
    {net[i].name : i \in {k \in DOMAIN net :
        \A j \in DOMAIN net \ {k} : net[k].name \notin net[j].components}}

\* C6: when exactly one circuit name is instantiated by no other circuit,
\* create_dag returns the subgraph induced by it and what is reachable from
\* it, wherever its entry stands in the netlist.
C6_DagIsRootedAtTheUnreferencedEntry ==
    (pc # "build" /\ Cardinality(Unreferenced(recnet)) = 1) =>
        LET root == CHOOSE n \in Unreferenced(recnet) : TRUE
            g == FullGraph(recnet, DOMAIN [name \in args.models |-> name])
        IN dependency_dag = InducedSubgraph(g, {root} \cup Descendants(g, root))

\* the circuits other than name that instantiate component
InstantiatedOutside(component, name) ==
    \E i \in DOMAIN recnet : recnet[i].name # name /\ component \in recnet[i].components

\* C7: for a sub-circuit M of the netlist for which the caller supplies a
\* model: the components only M instantiates are no nodes of the dependency
\* graph and are not reported missing, M is never flattened, and the model
\* used for M is the supplied one.
C7_SuppliedSubcircuitIsNotExpanded ==
    (pc # "build") =>
        \A M \in args.models \cap Keys(recnet) :
            InstantiatedOutside(M, M) =>
                /\ \A c \in ComponentsOf(M) :
                     (c # M /\ ~InstantiatedOutside(c, M)) =>
                        /\ c \notin dependency_dag.nodes
                        /\ (pc = "done" /\ result.status = "ValueError: missing models")
                               => c \notin result.missing
                /\ \A i \in DOMAIN flattened :
                     /\ flattened[i].name # M
                     /\ M \in ComponentsOf(flattened[i].name)
                            => current_models[M].src = "given"

\* C9: whenever circuit returns, the callable returned is the model made for
\* the root of the dependency graph, it is CircuitInfo.models[root], and
\* CircuitInfo.models has an entry for every node of the graph.
C9_ReturnsTheRootModel ==
    (pc = "done" /\ result.status = "ok") =>
        /\ \A root \in find_root(result.dag) :
              /\ result.circuit.src = "flat"
              /\ result.circuit.name = root
              /\ root \in DOMAIN result.models
              /\ result.models[root] = result.circuit
        /\ result.dag.nodes \subseteq DOMAIN result.models

(***************************************************************************)
(* The settings of the callable _flat_circuit makes (lines 124-158).  A     *)
(* settings dictionary maps a key to Leaf(v), a value, or to Dict(d), the   *)
(* nested dictionary d of one instance, from parameter names to values.     *)
(* The instances are component models, whose settings are flat.             *)
(***************************************************************************)
Leaf(v) == [kind |-> "value", value |-> v, items |-> <<>>]
Dict(d) == [kind |-> "dict", value |-> None, items |-> d]

Restrict(f, S) == [k \in S |-> f[k]]

\* utils.get_settings: the default parameter mapping the model declares
get_settings(mdl) == mdl.defaults

\* utils.merge_dicts: deep merge, the later dictionary wins at every level
merge_dicts(d1, d2) ==
    [k \in DOMAIN d1 \cup DOMAIN d2 |->
        IF k \in DOMAIN d1 /\ k \in DOMAIN d2
        THEN IF d1[k].kind = "dict" /\ d2[k].kind = "dict"
             THEN Dict(Update(d1[k].items, d2[k].items))
             ELSE d2[k]
        ELSE IF k \in DOMAIN d1 THEN d1[k] ELSE d2[k]]

\* utils.update_settings(settings, **overrides): every key already set, at
\* any level, takes the override of its name
update_settings(s, overrides) ==
    [k \in DOMAIN s |->
        IF s[k].kind = "dict"
        THEN Dict([q \in DOMAIN s[k].items |->
                      IF q \in DOMAIN overrides THEN overrides[q].value
                      ELSE s[k].items[q]])
        ELSE IF k \in DOMAIN overrides THEN overrides[k] ELSE s[k]]

\* line 127
Inst2Model(instances, mdls) ==
    [k \in DOMAIN instances |-> mdls[instances[k].component]]

\* line 129
ModelSettings(i2m) == [name \in DOMAIN i2m |-> Dict(get_settings(i2m[name]))]

\* lines 130-133: the netlist settings the model of the instance declares
NetlistSettings(instances, i2m) ==
    [name \in DOMAIN instances |->
        Dict(Restrict(instances[name].settings,
                      DOMAIN instances[name].settings
                          \cap DOMAIN ModelSettings(i2m)[name].items))]

\* line 134 with the arguments exchanged
DefaultSettings_ModelWins(instances, i2m) ==
    merge_dicts(NetlistSettings(instances, i2m), ModelSettings(i2m))

\* line 134
DefaultSettings(instances, i2m) ==
    merge_dicts(ModelSettings(i2m), NetlistSettings(instances, i2m))

\* lines 150-158
_forward_global_settings(instances, s) ==
    LET global_settings == Restrict(s, DOMAIN s \ DOMAIN instances)
        popped == Restrict(s, DOMAIN s \cap DOMAIN instances)
    IN IF DOMAIN global_settings # {}
       THEN update_settings(popped, global_settings)
       ELSE popped

(***************************************************************************)
(* Specification SpecSettings: _flat_circuit on two instances of component  *)
(* models declaring any of Params, with any netlist settings, and one call  *)
(* of the callable with at most MaxOverrides keyword settings, per instance *)
(* or global.  A value tells where it was given: 1 the model's default,     *)
(* 2 the netlist, 3 a global key of the call, 4 an instance key of the call.*)
(***************************************************************************)
MaxOverrides == 2

InstanceNames2 == {"a", "b"}
ComponentNames == {"wg", "dc"}
Params == {"x", "y"}

ComponentModels ==
    {[defaults |-> [q \in declared |-> 1]] : declared \in SUBSET Params}

NetlistInstances ==
    {[component |-> c, settings |-> [q \in given |-> 2]] :
        c \in ComponentNames, given \in SUBSET Params}

\* the keyword settings of a call: per gives the keys set under each
\* instance name, glob the top-level parameter keys
CallSettings(per, glob) ==
    [k \in {i \in InstanceNames2 : per[i] # {}} \cup glob |->
        IF k \in InstanceNames2 THEN Dict([q \in per[k] |-> 4]) ELSE Leaf(3)]

Calls ==
    {CallSettings(c.per, c.glob) :
        c \in {x \in [per : [InstanceNames2 -> SUBSET Params], glob : SUBSET Params] :
                  Cardinality(x.glob) + Cardinality(x.per["a"]) + Cardinality(x.per["b"])
                      <= MaxOverrides}}

InitSettings ==
    /\ pc = "flat"
    /\ \E mdls \in [ComponentNames -> ComponentModels],
          instances \in [InstanceNames2 -> NetlistInstances] :
         args = [instances |-> instances, models |-> mdls]
    /\ result = None
    /\ models = <<>> /\ PhaxIdle /\ GenIdle /\ SaxIdle /\ SetIdle

\* lines 124-134, 146-148: the callable is made
FlatCircuit ==
    /\ pc = "flat"
    /\ inst2model' = Inst2Model(args.instances, args.models)
    /\ default_settings' = DefaultSettings(args.instances, inst2model')
    /\ pc' = "defined"
    /\ UNCHANGED <<args, result, phaxVars, genVars, saxVars, kwargs, settings>>

\* lines 136-137: the callable is called
CircuitCall ==
    /\ pc = "defined"
    /\ \E call \in Calls :
         /\ kwargs' = call
         /\ settings' = merge_dicts(default_settings, call)
    /\ pc' = "forward"
    /\ UNCHANGED <<args, result, phaxVars, genVars, saxVars, inst2model, default_settings>>

\* line 138
ForwardGlobalSettings ==
    /\ pc = "forward"
    /\ settings' = _forward_global_settings(inst2model, settings)
    /\ pc' = "evaluate"
    /\ UNCHANGED <<args, result, phaxVars, genVars, saxVars, inst2model,
                   default_settings, kwargs>>

\* lines 140-142: every model is called with settings.get(inst_name, {})
EvaluateInstances ==
    /\ pc = "evaluate"
    /\ result' = [inst_name \in DOMAIN inst2model |->
                     IF inst_name \in DOMAIN settings THEN settings[inst_name].items
                     ELSE <<>>]
    /\ pc' = "done"
    /\ UNCHANGED <<args, phaxVars, genVars, saxVars, setVars>>

NextSettings ==
    \/ FlatCircuit
    \/ CircuitCall
    \/ ForwardGlobalSettings
    \/ EvaluateInstances

SpecSettings == InitSettings /\ [][NextSettings]_vars

\* the top-level keys of the call that name no instance
GlobalKeys == DOMAIN kwargs \ DOMAIN args.instances

\* the parameters the call sets under the name of instance i
InstanceKeys(i) == IF i \in DOMAIN kwargs THEN DOMAIN kwargs[i].items ELSE {}

Suffixed(p, mode) == p \o <<"@">> \o mode

\* the dictionary a comprehension builds from items: of the items with one
\* key the last one stays
DictOf(items) ==
    [k \in {items[i][1] : i \in DOMAIN items} |->
        items[CHOOSE i \in DOMAIN items :
                 /\ items[i][1] = k
                 /\ \A j \in DOMAIN items : items[j][1] = k => j <= i][2]]

\* lines 300-310 with the mode left off the value
PerMode_KeyOnly(d, modes) ==
    DictOf([n \in 1..(Len(d) * Len(modes)) |->
               LET i == ((n - 1) \div Len(modes)) + 1
                   j == ((n - 1) % Len(modes)) + 1
               IN <<Suffixed(d[i][1], modes[j]), d[i][2]>>])

\* lines 300-310: for p1, p2 in d.items() for mode in modes
PerMode(d, modes) ==
    DictOf([n \in 1..(Len(d) * Len(modes)) |->
               LET i == ((n - 1) \div Len(modes)) + 1
                   j == ((n - 1) % Len(modes)) + 1
               IN <<Suffixed(d[i][1], modes[j]), Suffixed(d[i][2], modes[j])>>])

\* lines 294-296
_make_singlemode(netlist, mode, mdls) ==
    [connections |-> DictOf(netlist.connections),
     ports |-> DictOf(netlist.ports),
     models |-> Wrapped(mdls, <<mode>>)]

\* lines 298-311
_make_multimode(netlist, modes, mdls) ==
    [connections |-> PerMode(netlist.connections, modes),
     ports |-> PerMode(netlist.ports, modes),
     models |-> Wrapped(mdls, modes)]

\* lines 286-291
_make_singlemode_or_multimode(netlist, modes, mdls) ==
    IF Len(modes) = 1
    THEN _make_singlemode(netlist, modes[1], mdls)
    ELSE _make_multimode(netlist, modes, mdls)

(***************************************************************************)
(* Specification SpecModes: one call of _make_singlemode_or_multimode on a  *)
(* netlist with at most MaxPairs connections and as many ports, and a list  *)
(* of one to MaxModes modes (_validate_modes returns no empty list).        *)
(***************************************************************************)
MaxPairs == 2
MaxModes == 2

InstancePorts == {<<"a">>, <<"b">>, <<"a", "@", "x">>}
PeerPorts == {<<"b">>, <<"c">>}
ExternalPorts == {<<"o">>, <<"i">>}
ModeNames == {<<"x">>, <<"y">>, <<"x", "@", "y">>}

\* the dictionaries of at most n items from keys to values
RECURSIVE Dicts(_, _, _)
Dicts(keys, values, n) ==
    IF n = 0 THEN {<<>>}
    ELSE LET shorter == Dicts(keys, values, n - 1)
         IN shorter \cup
            UNION {{Append(d, <<k, v>>) : k \in keys \ {d[i][1] : i \in DOMAIN d},
                                          v \in values} :
                      d \in {e \in shorter : Len(e) = n - 1}}

RECURSIVE ModeListsUpTo(_)
ModeListsUpTo(n) ==
    IF n = 0 THEN {<<>>}
    ELSE ModeListsUpTo(n - 1) \cup
         {Append(l, mode) : l \in {k \in ModeListsUpTo(n - 1) : Len(k) = n - 1},
                            mode \in ModeNames}

InitModes ==
    /\ pc = "call"
    /\ \E conns \in Dicts(InstancePorts, PeerPorts, MaxPairs),
          ports \in Dicts(PeerPorts, ExternalPorts, MaxPairs),
          modes \in ModeListsUpTo(MaxModes) \ {<<>>} :
         args = [netlist |-> [connections |-> conns, ports |-> ports],
                 modes |-> modes,
                 models |-> [name \in {"wg"} |-> GivenModel(name)]]
    /\ result = None
    /\ models = <<>> /\ PhaxIdle /\ GenIdle /\ SaxIdle /\ SetIdle

MakeSinglemodeOrMultimode ==
    /\ pc = "call"
    /\ result' = _make_singlemode_or_multimode(args.netlist, args.modes, args.models)
    /\ pc' = "done"
    /\ UNCHANGED <<args, phaxVars, genVars, saxVars, setVars>>

NextModes == MakeSinglemodeOrMultimode

SpecModes == InitModes /\ [][NextModes]_vars

\* the entries of a dictionary as a set of <<key, value>> pairs
Entries(f) == {<<k, f[k]>> : k \in DOMAIN f}

\* the entries the claim names: every item of d suffixed with every mode
SuffixedEntries(d, modes) ==
    {<<Suffixed(d[i][1], mode), Suffixed(d[i][2], mode)>> :
        i \in DOMAIN d, mode \in Range(modes)}

\* C11: with two or more modes the adapted connections and the adapted ports
\* are exactly the entries p1@m -> p2@m for every entry p1 -> p2 of the
\* netlist and every mode m; with one mode they are the netlist's own.
C11_ModeSuffixes ==
    (pc = "done") =>
        IF Len(args.modes) >= 2
        THEN /\ Entries(result.connections)
                    = SuffixedEntries(args.netlist.connections, args.modes)
             /\ Entries(result.ports) = SuffixedEntries(args.netlist.ports, args.modes)
        ELSE /\ Entries(result.connections) = Range(args.netlist.connections)
             /\ Entries(result.ports) = Range(args.netlist.ports)

\* the same for mode names without "@"
C11_PlainModes ==
    (pc = "done" /\ \A i \in DOMAIN args.modes : "@" \notin Range(args.modes[i]))
        => C11_ModeSuffixes

\* two modes and a connection: both suffixed entries and nothing else
C11_Witness ==
    /\ pc = "done"
    /\ args.modes = << <<"x">>, <<"y">> >>
    /\ args.netlist.connections = << << <<"a">>, <<"b">> >> >>
    /\ result.models["wg"].wrap = "multi"
    /\ Entries(result.connections) = {<< <<"a", "@", "x">>, <<"b", "@", "x">> >>,
                                      << <<"a", "@", "y">>, <<"b", "@", "y">> >>}

(***************************************************************************)
(* phax circuit: what the call does to the caller's dictionaries.  The      *)
(* variables models and connections are the objects the caller passed:      *)
(* _validate_circuit_parameters returns them as they are (line 213, a       *)
(* connections dictionary is not copied at lines 150-160).                  *)
(***************************************************************************)
\* C12: during and after a call of phax circuit the caller's models and
\* connections hold the keys and values they held before the call.
C12_CallerMappingsUnchanged ==
    /\ models = args.mdl
    /\ args.isDict => connections = args.conns

\* the group of modelnames holding instance name
GroupOf(name) == CHOOSE i \in DOMAIN modelnames : name \in Range(modelnames[i])

\* both endpoints of the connection are instances of one group that a merge made
Joined(conn) ==
    \E i \in DOMAIN modelnames :
        /\ Len(modelnames[i]) > 1
        /\ conn[1][1] \in Range(modelnames[i])
        /\ conn[2][1] \in Range(modelnames[i])

\* C13: for a validated input the reduction ends with one group holding
\* every instance; a connection is handed to _interconnect_model exactly
\* once, by the merge that first joins the instances of its two endpoints
\* (so it is eliminated as soon as they are joined and not before), and none
\* is left when the final model is renamed.
C13_EveryConnectionEliminatedOnce ==
    /\ (pc \in {"for", "rename"}) =>
          \A i \in DOMAIN args.conns :
              /\ Cardinality({k \in DOMAIN eliminated : eliminated[k] = args.conns[i]})
                    = IF Joined(args.conns[i]) THEN 1 ELSE 0
              /\ args.conns[i] \in Range(connections) <=> ~Joined(args.conns[i])
    /\ (pc = "rename") =>
          /\ Len(modelnames) = 1
          /\ Range(modelnames[1]) = Range(args.names)
          /\ connections = <<>>
          /\ Range(eliminated) = Range(args.conns)

\* the same for two or more instances
C13_FromTwoInstances == (Len(args.names) >= 2) => C13_EveryConnectionEliminatedOnce

=============================================================================
